---- MODULE Spec2Model ----
(***************************************************************************)
(* Linear / logistic regression of src/regression.go: the regularized cost *)
(* and gradient (CostFunction), the row shuffle, and the regularization    *)
(* search MinimizeCost.                                                     *)
(*                                                                         *)
(* Numbers.  The program computes in float64.  The model computes with     *)
(* integers: features, labels and parameters are integers, and a lambda,   *)
(* a hypothesis value or a logarithm is an integer count of 1/Scale.       *)
(* Divisions by the row count m are not carried out; a cost is the         *)
(* numerator of a fraction over 2*m*Scale and a gradient entry the         *)
(* numerator of a fraction over m*Scale.  Rounding of float64 arithmetic   *)
(* is outside the model.                                                   *)
(*                                                                         *)
(* Memory.  A Go slice is a reference to a backing array.  Theta vectors   *)
(* that MinimizeCost shares between models live in `heap`, and a model's   *)
(* Theta field there is an address.                                        *)
(***************************************************************************)
EXTENDS Integers, Sequences, FiniteSets, TLC

\* ------------------------------------------------------------------ bounds
\* CostFunction is explored on models of up to MaxRows rows and MaxWidth
\* columns, shuffle on models of up to ShuffleRows rows, MinimizeCost on
\* models of up to TrainRows rows and TrainWidth columns.
MaxRows == 2
MaxWidth == 2
ShuffleRows == 3
TrainRows == 1
TrainWidth == 1

XVals == {0, 1}
YVals == {0, 1}
ThetaVals == {-1, 0, 1}

\* ------------------------------------------------------------- fixed point
\* 1.0 in the model's fixed-point unit: the finest candidate lambda is 0.001.
Scale == 1000

\* The candidate regularization strengths, in 1/Scale.
lambdas == <<0, 1, 3, 10, 30, 100, 300, 1000, 3000, 10000, 30000, 100000, 300000>>

\* Lambdas a caller passes to CostFunction directly.
LambdaVals == {0, 1000}

RECURSIVE SumSeq(_)
SumSeq(s) == IF s = << >> THEN 0 ELSE Head(s) + SumSeq(Tail(s))

powTwo(x) == x * x

\* sigmoid(z) = 1 / (1 + e^(-z)) for an integer z, in 1/Scale, rounded.
sigmoid(z) ==
    LET pos == <<731, 881, 953, 982, 993, 998>>
        a   == IF z < 0 THEN -z ELSE z
        s   == IF a = 0 THEN 500 ELSE IF a <= Len(pos) THEN pos[a] ELSE 999
    IN  IF z < 0 THEN Scale - s ELSE s

\* math.Log of p/Scale, in 1/Scale, rounded, for the values sigmoid takes.
Log(p) ==
    CASE p = 999 -> -1     [] p = 998 -> -2     [] p = 993 -> -7
      [] p = 982 -> -18    [] p = 953 -> -48    [] p = 881 -> -127
      [] p = 731 -> -313   [] p = 500 -> -693   [] p = 269 -> -1313
      [] p = 119 -> -2129  [] p = 47  -> -3058  [] p = 18  -> -4017
      [] p = 7   -> -4962  [] p = 2   -> -6215  [] p = 1   -> -6908

\* ------------------------------------------------------------ hypotheses
LinearHipotesis(x, Theta) ==
    SumSeq([i \in 1..Len(x) |-> x[i] * Theta[i]])

LogisticHipotesis(x, Theta) ==
    sigmoid(SumSeq([i \in 1..Len(x) |-> x[i] * Theta[i]]))

\* ------------------------------------------------------------ CostFunction
\* What a call returns: kind "ok" (err = nil), "err" (err # nil, j and grad
\* left at their zero values) or "panic" (a Go run-time panic: the call does
\* not return).  nil is the empty sequence.
Ok(j, grad) == [kind |-> "ok", j |-> j, grad |-> grad]
Failure == [kind |-> "err", j |-> 0, grad |-> << >>]
Panic == [kind |-> "panic", j |-> 0, grad |-> << >>]

\* mt.Mult(mt.Sub(pred, y), X)[0][k]: the error gradient of column k before
\* the division by m.
ErrGrad(X, Y, pred, k) ==
    SumSeq([r \in 1..Len(X) |-> (pred[r] - Y[r]) * X[r][k]])

linearRegCostFunction(rg, lambda, calcGrad) ==
    \* line 86: rg.Theta[1:] of an empty Theta is out of range
    IF Len(rg.Theta) = 0 THEN Panic
    ELSE
    LET theta   == rg.Theta
        pred    == [r \in 1..Len(rg.X) |-> LinearHipotesis(rg.X[r], theta)]
        errors  == SumSeq([r \in 1..Len(rg.X) |-> powTwo(pred[r] - rg.Y[r])])
        regTerm == lambda * SumSeq([i \in 1..Len(Tail(rg.Theta)) |-> powTwo(Tail(rg.Theta)[i])])
    IN  Ok(Scale * errors + regTerm,
           << << [k \in 1..Len(theta) |->
                    Scale * ErrGrad(rg.X, rg.Y, pred, k) + lambda * theta[k]] >> >>)

\* A variant of logisticRegCostFunction that keeps theta[0][0] in the
\* gradient's regularization addend.
logisticRegCostFunctionKeepBias(rg, lambda, calcGrad) ==
    IF Len(rg.Theta) = 0 THEN Panic
    ELSE
    LET theta  == rg.Theta
        hx     == [r \in 1..Len(rg.X) |-> LogisticHipotesis(rg.X[r], theta)]
        fit    == SumSeq([r \in 1..Len(rg.X) |->
                     (-rg.Y[r]) * Log(hx[r]) - (1 - rg.Y[r]) * Log(Scale - hx[r])])
        zeroed == [theta EXCEPT ![1] = 0]
        reg    == lambda * SumSeq([i \in 1..Len(zeroed) |-> powTwo(zeroed[i])])
        ys     == [r \in 1..Len(rg.Y) |-> Scale * rg.Y[r]]
    IN  Ok(2 * fit + reg,
           << << [k \in 1..Len(theta) |->
                    ErrGrad(rg.X, ys, hx, k) + lambda * theta[k]] >> >>)

logisticRegCostFunction(rg, lambda, calcGrad) ==
    \* line 159: theta[0][0] = 0 on an empty Theta is out of range
    IF Len(rg.Theta) = 0 THEN Panic
    ELSE
    LET theta  == rg.Theta
        hx     == [r \in 1..Len(rg.X) |-> LogisticHipotesis(rg.X[r], theta)]
        fit    == SumSeq([r \in 1..Len(rg.X) |->
                     (-rg.Y[r]) * Log(hx[r]) - (1 - rg.Y[r]) * Log(Scale - hx[r])])
        zeroed == [theta EXCEPT ![1] = 0]
        reg    == lambda * SumSeq([i \in 1..Len(zeroed) |-> powTwo(zeroed[i])])
        ys     == [r \in 1..Len(rg.Y) |-> Scale * rg.Y[r]]
    IN  Ok(2 * fit + reg,
           << << [k \in 1..Len(theta) |->
                    ErrGrad(rg.X, ys, hx, k) + lambda * zeroed[k]] >> >>)

CostFunction(rg, lambda, calcGrad) ==
    IF Len(rg.Y) # Len(rg.X) THEN Failure
    \* line 39: rg.X[0] of a model without rows is out of range
    ELSE IF Len(rg.X) = 0 THEN Panic
    ELSE IF Len(rg.Theta) # Len(rg.X[1]) THEN Failure
    ELSE IF rg.LinearReg THEN linearRegCostFunction(rg, lambda, calcGrad)
    ELSE logisticRegCostFunction(rg, lambda, calcGrad)

\* ------------------------------------------------------------------ shuffle
\* rand.Perm(n): the permutations of the row positions.
Perms(n) == {p \in [1..n -> 1..n] : \A i, k \in 1..n : p[i] = p[k] => i = k}

\* shuffle with the labels left at their old positions.
shuffleRowsOnly(rg, perm) ==
    [X         |-> [v \in 1..Len(rg.X) |-> rg.X[CHOOSE i \in 1..Len(rg.X) : perm[i] = v]],
     Y         |-> rg.Y,
     Theta     |-> rg.Theta,
     LinearReg |-> FALSE]

\* The new model of lines 269-279: row i of rg goes to position perm[i], with
\* its label; the labels beyond the rows stay zero; Theta is the same slice;
\* LinearReg is not set and keeps Go's zero value, false.
shuffle(rg, perm) ==
    [X         |-> [v \in 1..Len(rg.X) |-> rg.X[CHOOSE i \in 1..Len(rg.X) : perm[i] = v]],
     Y         |-> [v \in 1..Len(rg.Y) |->
                      IF v <= Len(rg.X)
                      THEN rg.Y[CHOOSE i \in 1..Len(rg.X) : perm[i] = v]
                      ELSE 0],
     Theta     |-> rg.Theta,
     LinearReg |-> FALSE]

\* ---------------------------------------------------------------- Accuracy
\* The number of rows counted correct; Accuracy returns it divided by the
\* row count.
Accuracy(X, Y, Theta) ==
    Cardinality({i \in 1..Len(X) : LogisticHipotesis(X[i], Theta) >= Scale \div 2 /\ Y[i] = 1})

\* ------------------------------------------------------------------- state
VARIABLES
    \* one call of CostFunction: the receiver, the arguments, what it returned
    cfRg, cfLambda, cfCalcGrad, cfRet,
    \* one call of shuffle: the receiver and the model returned
    shRg, shRet,
    \* one call of MinimizeCost
    pc,             \* "entry", "loop", "trained", "done"
    orig,           \* the model MinimizeCost is called on
    shuf,           \* the model shuffle made, << >> while there is none
    trainingData,   \* the working model of line 201, << >> while there is none
    rg,             \* the model the local variable rg points to: "orig" or "shuf"
    heap,           \* the backing arrays of the Theta slices
    suffleData, maxIters,
    fmincgInPlace,  \* the optimizer writes into Theta (TRUE) or replaces it
    initTheta, bestJ, bestA, bestLambda,
    idx,            \* the position in lambdas of the next candidate
    finalCost, lambda,
    calls,          \* the optimizer calls made so far, each with Theta at its start
    thetaAtEntry,   \* the values of Theta when MinimizeCost was entered
    accMax, accFirst \* the largest accuracy a trial gave so far and the first trial that gave it

costVars == <<cfRg, cfLambda, cfCalcGrad, cfRet>>
shuffleVars == <<shRg, shRet>>
minVars == <<pc, orig, shuf, trainingData, rg, heap, suffleData, maxIters,
             fmincgInPlace, initTheta, bestJ, bestA, bestLambda, idx,
             finalCost, lambda, calls, thetaAtEntry, accMax, accFirst>>
vars == <<costVars, shuffleVars, minVars>>

Rows(w) == [1..w -> XVals]
Matrices(m, w) == [1..m -> Rows(w)]
Model(X, Y, Theta, LinearReg) ==
    [X |-> X, Y |-> Y, Theta |-> Theta, LinearReg |-> LinearReg]
NoModel == Model(<< >>, << >>, << >>, FALSE)
NoRet == [kind |-> "none", j |-> 0, grad |-> << >>]
Inf == [inf |-> TRUE, v |-> 0]
Fin(v) == [inf |-> FALSE, v |-> v]

\* The variables of the operations a specification does not exercise.
CostIdle ==
    /\ cfRg = NoModel /\ cfLambda = 0 /\ cfCalcGrad = FALSE /\ cfRet = NoRet
ShuffleIdle ==
    /\ shRg = NoModel /\ shRet = << >>
MinIdle ==
    /\ pc = "idle" /\ orig = NoModel /\ shuf = << >> /\ trainingData = << >>
    /\ rg = "orig" /\ heap = [a \in {"entry", "fresh"} |-> << >>]
    /\ suffleData = FALSE /\ maxIters = 0 /\ fmincgInPlace = TRUE
    /\ initTheta = << >> /\ bestJ = Inf /\ bestA = 0 /\ bestLambda = 0
    /\ idx = 1 /\ finalCost = 0 /\ lambda = 0 /\ calls = << >>
    /\ thetaAtEntry = << >> /\ accMax = -1 /\ accFirst = 0

\* ------------------------------------------------- CostFunction, one call
\* Any model, also one that breaks the data model's invariants: no rows, rows
\* of no width, a label count or a parameter count that does not match.
InitCost ==
    /\ \E m \in 0..MaxRows, w \in 0..MaxWidth, n \in 0..MaxRows, t \in 0..MaxWidth :
         \E X \in Matrices(m, w), Y \in [1..n -> YVals], Theta \in [1..t -> ThetaVals],
            lin \in BOOLEAN :
             cfRg = Model(X, Y, Theta, lin)
    /\ cfLambda \in LambdaVals
    /\ cfCalcGrad \in BOOLEAN
    /\ cfRet = NoRet
    /\ ShuffleIdle /\ MinIdle

CallCostFunction ==
    /\ cfRet.kind = "none"
    /\ cfRet' = CostFunction(cfRg, cfLambda, cfCalcGrad)
    /\ UNCHANGED <<cfRg, cfLambda, cfCalcGrad, shuffleVars, minVars>>

NextCost == CallCostFunction
SpecCost == InitCost /\ [][NextCost]_vars

\* ------------------------------------------------------ shuffle, one call
InitShuffle ==
    /\ \E m \in 0..ShuffleRows, w \in 1..TrainWidth :
         \E X \in Matrices(m, w), Y \in [1..m -> YVals], lin \in BOOLEAN :
             shRg = Model(X, Y, [i \in 1..w |-> 0], lin)
    /\ shRet = << >>
    /\ CostIdle /\ MinIdle

CallShuffle ==
    /\ shRet = << >>
    /\ \E perm \in Perms(Len(shRg.X)) : shRet' = <<shuffle(shRg, perm)>>
    /\ UNCHANGED <<shRg, costVars, minVars>>

NextShuffle == CallShuffle
SpecShuffle == InitShuffle /\ [][NextShuffle]_vars

\* ------------------------------------------------------------ MinimizeCost
\* The iteration budget of a candidate's trial.
TrialIters == 10

\* The budgets a caller asks for.
MaxItersVals == {1, 50}

\* The model a pointer names.
Target(name) == IF name = "shuf" THEN shuf[1] ELSE orig

\* A model with its Theta slice read from the heap.
Deref(model, h) == [model EXCEPT !.Theta = h[model.Theta]]

\* A trial that starts from whatever Theta the previous call left.
copyNothing(dst, src) == dst

\* Go's copy(dst, src): the first min(len(dst), len(src)) elements.
copy(dst, src) ==
    [i \in 1..Len(dst) |-> IF i <= Len(src) THEN src[i] ELSE dst[i]]

\* The vectors the optimizer may leave in Theta: every parameter at the same
\* value of ThetaVals.
FmincgResults(w) == {[i \in 1..w |-> v] : v \in ThetaVals}

\* Fmincg(model, lambda, iters, verbose) leaves `result` in the model's Theta:
\* written into the backing array the slice already names, or, as setTheta
\* does, as a new slice.  Only the last new array can still be referenced,
\* so one address, "fresh", stands for it.
Fmincg(model, h, inPlace, result) ==
    IF inPlace
    THEN [model |-> model, heap |-> [h EXCEPT ![model.Theta] = result]]
    ELSE [model |-> [model EXCEPT !.Theta = "fresh"],
          heap  |-> [h EXCEPT !["fresh"] = result]]

\* What a call passes to the optimizer, with Theta as the call finds it.
TrialCall(posLambda, theta) ==
    [lambda |-> posLambda, iters |-> TrialIters, theta |-> theta]

FinalCallTrialBudget(best, iters, theta) ==
    [lambda |-> best, iters |-> TrialIters, theta |-> theta]

FinalCall(best, iters, theta) ==
    [lambda |-> best, iters |-> iters, theta |-> theta]

\* bestJ > j
Greater(b, j) == b.inf \/ b.v > j

\* A search in which a tie moves the best lambda to the later candidate.
SelectBestOrEqual(a, l, accuracy, posLambda) ==
    IF accuracy >= a THEN <<accuracy, posLambda>> ELSE <<a, l>>

\* Lines 230-234: the new bestA and bestLambda.
SelectBest(a, l, accuracy, posLambda) ==
    IF accuracy > a THEN <<accuracy, posLambda>> ELSE <<a, l>>

\* The training sets: the first column is the bias feature, 1.
TrainingSets(m, w) ==
    {X \in Matrices(m, w) : \A r \in 1..m : X[r][1] = 1}

\* The Theta a model holds when MinimizeCost is entered: the zero vector of
\* InitializeTheta, or the refinement an earlier training left.
EntryThetas(w) == {[i \in 1..w |-> v] : v \in ThetaVals}

\* A call on a model that keeps the data model's invariants and has rows.
Init ==
    /\ \E m \in 1..TrainRows, w \in 1..TrainWidth :
         \E X \in TrainingSets(m, w), Y \in [1..m -> YVals],
            Theta \in EntryThetas(w), lin \in BOOLEAN :
             /\ orig = Model(X, Y, "entry", lin)
             /\ heap = [a \in {"entry", "fresh"} |-> IF a = "entry" THEN Theta ELSE << >>]
             /\ thetaAtEntry = Theta
    /\ suffleData \in BOOLEAN
    /\ maxIters \in MaxItersVals
    /\ fmincgInPlace \in BOOLEAN
    /\ pc = "entry" /\ shuf = << >> /\ trainingData = << >> /\ rg = "orig"
    /\ initTheta = << >> /\ bestJ = Inf /\ bestA = 0 /\ bestLambda = 0
    /\ idx = 1 /\ finalCost = 0 /\ lambda = 0 /\ calls = << >>
    /\ accMax = -1 /\ accFirst = 0
    /\ CostIdle /\ ShuffleIdle

\* Lines 192-214.
Enter ==
    /\ pc = "entry"
    /\ IF suffleData
       THEN \E perm \in Perms(Len(orig.X)) :
               /\ shuf' = <<shuffle(orig, perm)>>
               /\ rg' = "shuf"
       ELSE /\ shuf' = shuf
            /\ rg' = "orig"
    /\ LET r == IF rg' = "shuf" THEN shuf'[1] ELSE orig
       IN  /\ trainingData' = <<Model(r.X, r.Y, r.Theta, r.LinearReg)>>
           /\ initTheta' = copy([i \in 1..Len(heap[r.Theta]) |-> 0], heap[r.Theta])
    /\ bestJ' = Inf
    /\ bestA' = 0
    /\ bestLambda' = 0
    /\ idx' = 1
    /\ pc' = "loop"
    /\ UNCHANGED <<orig, heap, suffleData, maxIters, fmincgInPlace, finalCost,
                   lambda, calls, thetaAtEntry, accMax, accFirst, costVars, shuffleVars>>

\* Lines 216-235, one candidate: reset Theta, train for TrialIters, take the
\* cost and the accuracy, keep the best.
Trial ==
    /\ pc = "loop"
    /\ idx <= Len(lambdas)
    /\ LET posLambda == lambdas[idx]
           td        == trainingData[1]
           h1        == [heap EXCEPT ![td.Theta] = copy(heap[td.Theta], initTheta)]
       \* each value is bound once, by a one-element \E
       IN  \E result \in FmincgResults(Len(h1[td.Theta])) :
           \E out \in {Fmincg(td, h1, fmincgInPlace, result)} :
           \E m \in {Deref(out.model, out.heap)} :
           \E j \in {CostFunction(m, posLambda, FALSE).j} :
           \E accuracy \in {Accuracy(m.X, m.Y, m.Theta)} :
           \E best \in {SelectBest(bestA, bestLambda, accuracy, posLambda)} :
                 /\ calls' = Append(calls, TrialCall(posLambda, h1[td.Theta]))
                 /\ trainingData' = <<out.model>>
                 /\ heap' = out.heap
                 /\ bestJ' = IF Greater(bestJ, j) THEN Fin(j) ELSE bestJ
                 /\ bestA' = best[1]
                 /\ bestLambda' = best[2]
                 /\ accFirst' = IF accuracy > accMax THEN idx ELSE accFirst
                 /\ accMax' = IF accuracy > accMax THEN accuracy ELSE accMax
    /\ idx' = idx + 1
    /\ UNCHANGED <<pc, orig, shuf, rg, suffleData, maxIters, fmincgInPlace,
                   initTheta, finalCost, lambda, thetaAtEntry, costVars, shuffleVars>>

\* Line 238: the final training, with the best lambda and the caller's budget.
FinalTrain ==
    /\ pc = "loop"
    /\ idx > Len(lambdas)
    /\ LET td == trainingData[1]
       IN  \E result \in FmincgResults(Len(heap[td.Theta])) :
             LET out == Fmincg(td, heap, fmincgInPlace, result)
             IN  /\ calls' = Append(calls, FinalCall(bestLambda, maxIters, heap[td.Theta]))
                 /\ trainingData' = <<out.model>>
                 /\ heap' = out.heap
    /\ pc' = "trained"
    /\ UNCHANGED <<orig, shuf, rg, suffleData, maxIters, fmincgInPlace, initTheta,
                   bestJ, bestA, bestLambda, idx, finalCost, lambda, thetaAtEntry,
                   accMax, accFirst, costVars, shuffleVars>>

\* Lines 240-245: rg.Theta = trainingData.Theta on the model rg points to,
\* the final cost, and the return.  The result lambda is never assigned and
\* returns its zero value: line 243 assigns bestLambda to itself.
Return ==
    /\ pc = "trained"
    /\ LET td == trainingData[1]
       IN  /\ IF rg = "shuf"
              THEN /\ shuf' = <<[shuf[1] EXCEPT !.Theta = td.Theta]>>
                   /\ orig' = orig
              ELSE /\ orig' = [orig EXCEPT !.Theta = td.Theta]
                   /\ shuf' = shuf
           /\ finalCost' = CostFunction(Deref(td, heap), bestLambda, FALSE).j
    /\ lambda' = lambda
    /\ pc' = "done"
    /\ UNCHANGED <<trainingData, rg, heap, suffleData, maxIters, fmincgInPlace,
                   initTheta, bestJ, bestA, bestLambda, idx, calls, thetaAtEntry,
                   accMax, accFirst, costVars, shuffleVars>>

Next == Enter \/ Trial \/ FinalTrain \/ Return
Spec == Init /\ [][Next]_vars

\* ================================================================== claims
Zeros(n) == [i \in 1..n |-> 0]
Returned == pc = "done"
Working == trainingData[1]

\* C1: the lambda MinimizeCost returns is the winning lambda, the one it
\* passed to the final optimizer call and to the final cost evaluation.
C1_ReturnsWinningLambda ==
    Returned => /\ lambda = bestLambda
                /\ lambda = calls[Len(calls)].lambda

\* C2: when MinimizeCost returns, the Theta of the model it was called on
\* equals the Theta of the trained model, with and without shuffling, for an
\* optimizer that writes into Theta and for one that replaces it.
C2_ThetaCopiedBack ==
    Returned => heap[orig.Theta] = heap[Working.Theta]

\* C3: the lambda of the final optimizer call is the earliest candidate whose
\* accuracy is the largest of all candidates, whatever the costs were; while
\* the candidates are scanned, the best lambda is the earliest candidate with
\* the largest accuracy so far.
C3_EarliestBestAccuracyWins ==
    /\ (pc = "loop" /\ idx > 1) =>
          /\ bestA = accMax
          /\ bestLambda = lambdas[accFirst]
    /\ pc \in {"trained", "done"} =>
          /\ accFirst \in 1..Len(lambdas)
          /\ calls[Len(calls)].lambda = lambdas[accFirst]

\* A later candidate won the search.
C3_Witness ==
    /\ Returned
    /\ accFirst > 1
    /\ accMax > 0
    /\ calls[Len(calls)].lambda = lambdas[accFirst]

\* Whether the model breaks a precondition of CostFunction: the label count
\* or the parameter count does not match (a model without rows has width 0).
Width(X) == IF X = << >> THEN 0 ELSE Len(X[1])
Mismatch(m) == Len(m.Y) # Len(m.X) \/ Len(m.Theta) # Width(m.X)

\* C4: CostFunction never crashes, also on a model without rows or with rows
\* of no width: it returns an error when the counts do not match and a cost
\* with a nil error otherwise.
C4_ErrorNeverCrash ==
    cfRet.kind # "none" =>
        /\ cfRet.kind # "panic"
        /\ Mismatch(cfRg) => cfRet.kind = "err"
        /\ ~Mismatch(cfRg) => cfRet.kind = "ok"

\* C5: a successful CostFunction call returns a gradient, one entry per
\* parameter, when calcGrad is true, and no gradient (nil) when it is false.
C5_GradientOnlyOnRequest ==
    cfRet.kind = "ok" =>
        /\ cfCalcGrad => /\ cfRet.grad # << >>
                         /\ Len(cfRet.grad[1][1]) = Len(cfRg.Theta)
        /\ ~cfCalcGrad => cfRet.grad = << >>

\* The multiset of (feature row, label) pairs of a model: how often each
\* pair occurs.
PairCount(m, x, y) == Cardinality({i \in 1..Len(m.X) : m.X[i] = x /\ m.Y[i] = y})

\* C6: for a model with as many labels as rows, shuffle returns a model with
\* the same multiset of (row, label) pairs, so every row keeps its label, and
\* it has as many rows and labels as the model it was called on.
C6_ShufflePreservesPairs ==
    (shRet # << >> /\ Len(shRg.X) = Len(shRg.Y)) =>
        /\ Len(shRet[1].X) = Len(shRg.X)
        /\ Len(shRet[1].Y) = Len(shRg.Y)
        /\ \A i \in 1..Len(shRg.X) :
             /\ PairCount(shRet[1], shRg.X[i], shRg.Y[i])
                  = PairCount(shRg, shRg.X[i], shRg.Y[i])
             /\ PairCount(shRg, shRet[1].X[i], shRet[1].Y[i])
                  = PairCount(shRet[1], shRet[1].X[i], shRet[1].Y[i])

\* shuffle moved rows whose labels differ.
C6_Witness ==
    /\ shRet # << >>
    /\ Len(shRg.X) >= 2
    /\ shRet[1].X # shRg.X
    /\ shRet[1].Y # shRg.Y

\* C7: the model MinimizeCost trains, evaluates and returns has the LinearReg
\* flag of the model MinimizeCost was called on, with and without shuffling.
C7_LinearRegKept ==
    pc \in {"loop", "trained", "done"} => Working.LinearReg = orig.LinearReg

\* C8, as claimed: at the start of every candidate's optimizer call Theta is
\* the zero vector, whatever Theta the model held on entry.
C8_TrialStartsFromZero ==
    \A k \in 1..Len(calls) :
        k <= Len(lambdas) => calls[k].theta = Zeros(Len(calls[k].theta))

\* C8, amended: at the start of every candidate's optimizer call Theta has
\* the values the model held when MinimizeCost was entered, so nothing an
\* earlier candidate's training left carries over.
C8_TrialStartsFromEntryTheta ==
    \A k \in 1..Len(calls) :
        k <= Len(lambdas) => calls[k].theta = thetaAtEntry

\* A second candidate started although the model came with a Theta that is
\* not zero and the training before left another Theta.
C8_Witness ==
    /\ pc = "loop"
    /\ Len(calls) >= 2
    /\ thetaAtEntry # Zeros(Len(thetaAtEntry))
    /\ heap[Working.Theta] # thetaAtEntry

\* The error part of gradient[0], as a fraction over m*Scale: the sum over the
\* rows of (prediction - label) * X[row][0].
ErrorGradientAtBias(m) ==
    IF m.LinearReg
    THEN Scale * SumSeq([r \in 1..Len(m.X) |->
                   (LinearHipotesis(m.X[r], m.Theta) - m.Y[r]) * m.X[r][1]])
    ELSE SumSeq([r \in 1..Len(m.X) |->
                   (LogisticHipotesis(m.X[r], m.Theta) - Scale * m.Y[r]) * m.X[r][1]])

\* C9: at index 0 the linear gradient is the error part plus
\* (lambda/m)*Theta[0], with Theta[0] as it is, and the logistic gradient is
\* the error part alone, whatever Theta[0] and lambda are.
C9_BiasGradientAsymmetry ==
    cfRet.kind = "ok" =>
        cfRet.grad[1][1][1] =
            IF cfRg.LinearReg
            THEN ErrorGradientAtBias(cfRg) + cfLambda * cfRg.Theta[1]
            ELSE ErrorGradientAtBias(cfRg)

\* A logistic gradient was taken with a lambda and a bias that are not zero.
C9_Witness ==
    /\ cfRet.kind = "ok"
    /\ ~cfRg.LinearReg
    /\ cfLambda > 0
    /\ cfRg.Theta[1] # 0
    /\ Len(cfRg.X) >= 1

\* The candidate list of the claim, in 1/Scale.
CandidateList ==
    <<0, 1, 3, 10, 30, 100, 300, 1 * Scale, 3 * Scale, 10 * Scale, 30 * Scale,
      100 * Scale, 300 * Scale>>

\* C10: the optimizer is called once per candidate of the fixed list, in list
\* order, with budget 10 and the candidate's lambda, then once more with the
\* winning lambda and the budget maxIters; MinimizeCost returns, with the
\* final cost taken, only after all 14 calls.
C10_FourteenCallsInOrder ==
    /\ Len(calls) <= Len(CandidateList) + 1
    /\ \A k \in 1..Len(calls) :
         IF k <= Len(CandidateList)
         THEN calls[k].lambda = CandidateList[k] /\ calls[k].iters = 10
         ELSE /\ calls[k].lambda = bestLambda
              /\ calls[k].iters = maxIters
              /\ pc \in {"trained", "done"}
    /\ pc = "entry" => calls = << >>
    /\ pc = "loop" => Len(calls) = idx - 1
    /\ pc \in {"trained", "done"} => Len(calls) = Len(CandidateList) + 1

\* MinimizeCost returned after a final call with a budget other than 10.
C10_Witness ==
    /\ Returned
    /\ Len(calls) = 14
    /\ calls[14].iters # 10

====
